---------------------------- MODULE Spec2Model ----------------------------
(***************************************************************************)
(* NPV / IRR solver (src/project2.py) and GBM path simulator               *)
(* (src/project1.py).                                                      *)
(*                                                                         *)
(* Numbers.  The scripts compute in binary64.  In Spec and SpecGBM a       *)
(* number is an exact rational <<n, d>> in lowest terms with d > 0, so the *)
(* arithmetic below is the real-number reading of each Python expression;  *)
(* binary64 rounding is not part of these two specifications.  SpecF runs  *)
(* find_all_irrs on the cash flows -100, 121 with its default arguments in *)
(* binary64 itself: every sum and quotient is rounded to nearest, ties to  *)
(* even, as the interpreter's float does.                                  *)
(*                                                                         *)
(* Arguments.  find_all_irrs and irr_bisection_interval take rate_min,     *)
(* rate_max, step, tol and max_iter as arguments.  The model instantiates  *)
(* them on a coarse grid (rate_min = -1/2, rate_max = 3, step = 1/2,       *)
(* tol = 1/16, max_iter = 4) so that every rate stays above -1, as with    *)
(* the defaults, and the numerators fit the checker's machine integers.    *)
(***************************************************************************)
EXTENDS Integers, Sequences, FiniteSets, TLC

\* ------------------------------------------------------------- bounds --
\* Largest magnitude of one cash flow entered at the prompt.
MaxCF == 4
\* Largest number of periods entered at the prompt.
MaxLen == 3
\* Iteration budget of irr_bisection_interval (an argument; 1000 by default).
max_iter == 4
\* Time steps of the GBM simulation (int(T / dt), 252 in the script).
steps == 3
\* Simulated paths of the GBM simulation (1000 in the script).
N == 2

\* -------------------------------------------------- rational numbers --
Abs(a) == IF a < 0 THEN -a ELSE a

RECURSIVE GCD(_, _)
GCD(a, b) == IF b = 0 THEN a ELSE GCD(b, a % b)

\* <<n, d>> in lowest terms, d > 0.
Norm(n, d) ==
    LET g == GCD(Abs(n), Abs(d))
        s == IF d < 0 THEN -1 ELSE 1
    IN  <<s * (n \div g), s * (d \div g)>>

Rat(i) == <<i, 1>>

\* x + y, over the least common denominator.
RAdd(x, y) ==
    LET L == (x[2] \div GCD(x[2], y[2])) * y[2]
    IN  Norm(x[1] * (L \div x[2]) + y[1] * (L \div y[2]), L)

RNeg(x) == <<-x[1], x[2]>>

RMul(x, y) == Norm(x[1] * y[1], x[2] * y[2])

\* x / y, y # 0.
RDiv(x, y) == Norm(x[1] * y[2], x[2] * y[1])

\* x ** t for an integer t >= 0.
RECURSIVE RPow(_, _)
RPow(x, t) == IF t = 0 THEN Rat(1) ELSE RMul(x, RPow(x, t - 1))

RAbs(x) == <<Abs(x[1]), x[2]>>

Sgn(x) == IF x[1] > 0 THEN 1 ELSE IF x[1] < 0 THEN -1 ELSE 0

\* a/b < c/d for naturals a, c and positive b, d, by continued fractions
\* (no cross product, so no overflow).
RECURSIVE FracLess(_, _, _, _)
FracLess(a, b, c, d) ==
    LET qa == a \div b
        qc == c \div d
        ra == a % b
        rc == c % d
    IN  IF qa # qc THEN qa < qc
        ELSE IF rc = 0 THEN FALSE
        ELSE IF ra = 0 THEN TRUE
        ELSE FracLess(d, rc, b, ra)

\* x < y.
RLess(x, y) ==
    IF Sgn(x) < 0 /\ Sgn(y) < 0 THEN FracLess(-y[1], y[2], -x[1], x[2])
    ELSE IF Sgn(x) < 0 THEN TRUE
    ELSE IF Sgn(y) < 0 THEN FALSE
    ELSE FracLess(x[1], x[2], y[1], y[2])

RLeq(x, y) == ~RLess(y, x)

\* The sign of the product a * b, as the tests a * b > 0 and a * b < 0 read it.
ProdSign(a, b) == Sgn(a) * Sgn(b)

\* Python's None; no rational has denominator 0.
None == <<0, 0>>

\* ---------------------------------------------------------------- npv --
\* Lines 5-8, with "-" typed for "/" in line 7.
RECURSIVE NpvLoopMinus(_, _, _, _)
NpvLoopMinus(rate, cash_flows, t, total_value) ==
    IF t >= Len(cash_flows) THEN total_value
    ELSE NpvLoopMinus(rate, cash_flows, t + 1,
                 RAdd(total_value,
                      RAdd(Rat(cash_flows[t + 1]),
                           RNeg(RPow(RAdd(Rat(1), rate), t)))))

RECURSIVE NpvLoop(_, _, _, _)
NpvLoop(rate, cash_flows, t, total_value) ==
    IF t >= Len(cash_flows) THEN total_value
    ELSE NpvLoop(rate, cash_flows, t + 1,
                 RAdd(total_value,
                      RDiv(Rat(cash_flows[t + 1]), RPow(RAdd(Rat(1), rate), t))))

npv(rate, cash_flows) == NpvLoop(rate, cash_flows, 0, Rat(0))

\* ------------------------------------------------ arguments, inputs --
rate_min == <<-1, 2>>
rate_max == <<3, 1>>
step == <<1, 2>>
tol == <<1, 16>>

RECURSIVE SeqsOfLen(_, _)
SeqsOfLen(S, n) ==
    IF n = 0 THEN {<<>>}
    ELSE {Append(s, v) : s \in SeqsOfLen(S, n - 1), v \in S}

\* What the prompt loop can build: n periods, one cash flow each.
CashFlowInputs == UNION {SeqsOfLen(-MaxCF .. MaxCF, n) : n \in 1 .. MaxLen}

\* ------------------------------------------------------ find_all_irrs --
RECURSIVE RateGrid(_, _)
RateGrid(r, rates) ==
    IF RLeq(r, rate_max) THEN RateGrid(RAdd(r, step), Append(rates, r))
    ELSE rates

NpvValues(rs, cf) == [i \in 1 .. Len(rs) |-> npv(rs[i], cf)]

\* Line 53: npv_values[i] * npv_values[i + 1] < 0.
IsBracketLoose(a, b) == ProdSign(a, b) <= 0
IsBracketInverted(a, b) == ProdSign(a, b) > 0
IsBracket(a, b) == ProdSign(a, b) < 0

\* Line 20: npv_low * npv_high > 0.
NoSignChangeNever(a, b) == FALSE
NoSignChange(a, b) == ProdSign(a, b) > 0

\* Line 22: range(max_iter) has another value after i passes.
BudgetLeftOffByOne(i) == i <= max_iter
BudgetLeft(i) == i < max_iter

\* Line 23: (low + high) / 2.
Midpoint(lo, hi) == RDiv(RAdd(lo, hi), Rat(2))

\* Line 26: abs(npv_mid) < tol.
WithinTolLoose(v) == RLess(RAbs(v), Rat(1))
WithinTol(v) == RLess(RAbs(v), tol)

\* Line 60: irrs.append(irr).
CollectedInFront(rs, r) == <<r>> \o rs
Collected(rs, r) == Append(rs, r)

RECURSIVE IntervalsLoop(_, _, _, _)
IntervalsLoop(rs, nv, i, acc) ==
    IF i >= Len(rs) THEN acc
    ELSE IntervalsLoop(rs, nv, i + 1,
                       IF IsBracket(nv[i], nv[i + 1])
                       THEN Append(acc, <<rs[i], rs[i + 1]>>)
                       ELSE acc)

Intervals(rs, nv) == IntervalsLoop(rs, nv, 1, <<>>)

VARIABLES
    pc,           \* control point of the IRR script
    cash_flows,   \* the sequence entered at the prompt
    rates,        \* find_all_irrs: the rate grid
    npv_values,   \* find_all_irrs: NPV at each grid rate
    intervals,    \* find_all_irrs: the recorded brackets
    irrs,         \* find_all_irrs: the roots collected so far
    k,            \* find_all_irrs: brackets already handled
    r,            \* find_all_irrs: the rate the grid loop has reached
    count,        \* find_all_irrs: len(rates)
    caller,       \* who called irr_bisection_interval
    low, high, npv_low, npv_high, mid, npv_mid,   \* its locals
    x,            \* its loop iterations completed
    irr,          \* its return value
    exit,         \* which return statement produced irr
    gpc, Z, S, t  \* the GBM script: control point, shocks, prices, loop index

irrVars == <<pc, cash_flows, r, count, rates, npv_values, intervals, irrs, k, caller,
             low, high, npv_low, npv_high, mid, npv_mid, x, irr, exit>>
gbmVars == <<gpc, Z, S, t>>
vars == <<irrVars, gbmVars>>

frameVars == <<low, high, npv_low, npv_high, mid, npv_mid, x, irr, exit>>
scanVars == <<r, count, rates, npv_values, intervals, irrs, k>>

\* The IRR script starts with the cash flows read; the GBM script is not
\* running.
Init ==
    /\ gpc = "off" /\ Z = <<>> /\ S = <<>> /\ t = 0
    /\ pc = "start" /\ cash_flows \in CashFlowInputs
    /\ r = rate_min /\ count = 0
    /\ rates = <<>> /\ npv_values = <<>>
    /\ intervals = <<>> /\ irrs = <<>> /\ k = 0 /\ caller = "none"
    /\ low = None /\ high = None /\ npv_low = None /\ npv_high = None
    /\ mid = None /\ npv_mid = None /\ x = 0 /\ irr = None /\ exit = "none"

\* irr_bisection_interval, lines 16-21: the entry check.
Entry(lo, hi) ==
    /\ low' = lo /\ high' = hi
    /\ npv_low' = npv(lo, cash_flows)
    /\ npv_high' = npv(hi, cash_flows)
    /\ mid' = None /\ npv_mid' = None /\ x' = 0
    /\ IF NoSignChange(npv_low', npv_high')
       THEN irr' = None /\ exit' = "no_root" /\ pc' = "returned"
       ELSE irr' = None /\ exit' = "none" /\ pc' = "loop"

\* find_all_irrs, lines 43-54: grid, NPV values, brackets.
Scan ==
    /\ pc = "start"
    /\ rates' = RateGrid(rate_min, <<>>)
    /\ npv_values' = NpvValues(rates', cash_flows)
    /\ intervals' = Intervals(rates', npv_values')
    /\ r' = RAdd(rates'[Len(rates')], step) /\ count' = Len(rates')
    /\ irrs' = <<>> /\ k' = 0
    /\ caller' = "find_all_irrs"
    /\ pc' = "brackets"
    /\ UNCHANGED <<cash_flows, frameVars, gbmVars>>

\* find_all_irrs, lines 57-58: the call on the next bracket.
Call ==
    /\ pc = "brackets" /\ k < Len(intervals)
    /\ Entry(intervals[k + 1][1], intervals[k + 1][2])
    /\ UNCHANGED <<cash_flows, scanVars, caller, gbmVars>>

\* irr_bisection_interval called on its own, on two neighbouring grid rates.
DirectCall ==
    /\ pc = "start"
    /\ \E i \in 1 .. Len(RateGrid(rate_min, <<>>)) - 1 :
          Entry(RateGrid(rate_min, <<>>)[i], RateGrid(rate_min, <<>>)[i + 1])
    /\ caller' = "direct"
    /\ UNCHANGED <<cash_flows, scanVars, gbmVars>>

\* irr_bisection_interval, lines 22-34: one pass of the loop body.
Iterate ==
    /\ pc = "loop" /\ BudgetLeft(x)
    /\ mid' = Midpoint(low, high)
    /\ npv_mid' = npv(mid', cash_flows)
    /\ IF WithinTol(npv_mid')
       THEN /\ irr' = mid' /\ exit' = "tol" /\ pc' = "returned"
            /\ UNCHANGED <<low, high, npv_low, npv_high, x>>
       ELSE /\ IF ProdSign(npv_low, npv_mid') < 0
               THEN /\ high' = mid' /\ npv_high' = npv_mid'
                    /\ UNCHANGED <<low, npv_low>>
               ELSE /\ low' = mid' /\ npv_low' = npv_mid'
                    /\ UNCHANGED <<high, npv_high>>
            /\ x' = x + 1
            /\ UNCHANGED <<irr, exit, pc>>
    /\ UNCHANGED <<cash_flows, scanVars, caller, gbmVars>>

\* irr_bisection_interval, line 36: the budget is spent.
Exhaust ==
    /\ pc = "loop" /\ ~BudgetLeft(x)
    /\ irr' = mid /\ exit' = "max_iter" /\ pc' = "returned"
    /\ UNCHANGED <<cash_flows, scanVars, caller, low, high, npv_low, npv_high,
                   mid, npv_mid, x, gbmVars>>

\* find_all_irrs, lines 59-60: keep the root unless it is None.
Collect ==
    /\ pc = "returned" /\ caller = "find_all_irrs"
    /\ irrs' = IF irr # None THEN Collected(irrs, irr) ELSE irrs
    /\ k' = k + 1
    /\ pc' = "brackets"
    /\ UNCHANGED <<cash_flows, r, count, rates, npv_values, intervals, caller,
                   frameVars, gbmVars>>

\* find_all_irrs, line 62.
Return ==
    /\ pc = "brackets" /\ k >= Len(intervals)
    /\ pc' = "done"
    /\ UNCHANGED <<cash_flows, scanVars, caller, frameVars, gbmVars>>

\* ------------------------------------------------------- GBM script --
\* Initial stock price.
S0 == 100

\* The values a shock Z[t, i] takes in the model (a standard normal draw).
Shocks == {-1, 1}

\* exp((mu - 0.5 * sigma**2) * dt + sigma * sqrt(dt) * z), read to first
\* order (1 + u for exp(u)) with a drift of 1/100 and a volatility of 1/10
\* per step: positive and strictly increasing in the shock z.
StepFactor(z) == RAdd(Rat(1), RAdd(<<1, 100>>, RMul(<<1, 10>>, Rat(z))))

\* Line 23: the row a new row is computed from.
RowSourceInitial(row) == 0
RowSource(row) == row - 1

\* Lines 23-26: S[t - 1] * exp(... Z[t - 1]), element by element.
NextRow(prev, shock) == [i \in 1 .. N |-> RMul(prev[i], StepFactor(shock[i]))]

\* The GBM script starts; the IRR script is not running.
InitGBM ==
    /\ gpc = "start" /\ Z = <<>> /\ S = <<>> /\ t = 0
    /\ pc = "off" /\ cash_flows = <<>> /\ r = None /\ count = 0
    /\ rates = <<>> /\ npv_values = <<>>
    /\ intervals = <<>> /\ irrs = <<>> /\ k = 0 /\ caller = "none"
    /\ low = None /\ high = None /\ npv_low = None /\ npv_high = None
    /\ mid = None /\ npv_mid = None /\ x = 0 /\ irr = None /\ exit = "none"

\* Line 16: Z = rng.normal(0, 1, size=(steps, N)).
GenerateShocks ==
    /\ gpc = "start"
    /\ Z' \in [0 .. steps - 1 -> [1 .. N -> Shocks]]
    /\ gpc' = "alloc"
    /\ UNCHANGED <<S, t, irrVars>>

\* Lines 19-20: S = np.zeros((steps + 1, N)); S[0] = S0.
Allocate ==
    /\ gpc = "alloc"
    /\ S' = [row \in 0 .. steps |->
               [i \in 1 .. N |-> IF row = 0 THEN Rat(S0) ELSE Rat(0)]]
    /\ t' = 1
    /\ gpc' = "fill"
    /\ UNCHANGED <<Z, irrVars>>

\* Lines 22-26: one pass of the fill loop.
FillRow ==
    /\ gpc = "fill" /\ t <= steps
    /\ S' = [S EXCEPT ![t] = NextRow(S[RowSource(t)], Z[t - 1])]
    /\ t' = t + 1
    /\ UNCHANGED <<gpc, Z, irrVars>>

\* Line 37: the loop is over; final_prices = S[-1].
Filled ==
    /\ gpc = "fill" /\ t > steps
    /\ gpc' = "filled"
    /\ UNCHANGED <<Z, S, t, irrVars>>

GbmNext == GenerateShocks \/ Allocate \/ FillRow \/ Filled

SpecGBM == InitGBM /\ [][GbmNext]_vars

Next == Scan \/ Call \/ DirectCall \/ Iterate \/ Exhaust \/ Collect \/ Return

Spec == Init /\ [][Next]_vars


\* ---------------------------------------------------------- binary64 --
\* A binary64 number is <<s, h, l, e>>: sign s in {-1, 0, 1}, a 53-bit
\* significand h * 2^28 + l in [2^52, 2^53) and the value
\* s * (h * 2^28 + l) * 2^e; zero is <<0, 0, 0, 0>>.  A significand under
\* work is a pair <<h, l>> in the same base, of up to 58 bits.
Limb == 2^28

FZero == <<0, 0, 0, 0>>

WLess(a, b) == a[1] < b[1] \/ (a[1] = b[1] /\ a[2] < b[2])

WCarry(h, l) == <<h + l \div Limb, l % Limb>>

WAdd(a, b) == WCarry(a[1] + b[1], a[2] + b[2])

\* a - b for a >= b.
WBorrow(h, l) == IF l >= 0 THEN <<h, l>> ELSE <<h - 1, l + Limb>>

WSub(a, b) == WBorrow(a[1] - b[1], a[2] - b[2])

\* The lowest bit set if anything was shifted out (sticky).
WSticky(h, l, out) == <<h, IF out # 0 /\ l % 2 = 0 THEN l + 1 ELSE l>>

\* <<h, l>> shifted d bits to the right, sticky: p is <<h, l, d>>.
WShr[p \in Seq(Int)] ==
    IF p[3] = 0 THEN <<p[1], p[2]>>
    ELSE IF p[3] >= 28
    THEN LET a == WSticky(0, p[1], p[2]) IN WShr[<<a[1], a[2], p[3] - 28>>]
    ELSE LET m == 2^p[3]
             a == WSticky(p[1] \div m,
                          p[2] \div m + (p[1] % m) * (Limb \div m),
                          p[2] % m)
         IN  a

\* Three guard bits appended.
WGuard(h, l) == <<h * 8 + l \div 2^25, (l % 2^25) * 8>>

\* Round to nearest, ties to even: M is the significand, low3 the three
\* guard bits under it, the value is s * (8 * M + low3) * 2^(e - 3).
FRoundUp(s, M, e) ==
    IF M[1] >= 2^25 THEN <<s, 2^24, 0, e + 1>> ELSE <<s, M[1], M[2], e>>

FRoundBits(s, M, low3, e) ==
    IF low3 > 4 \/ (low3 = 4 /\ M[2] % 2 = 1)
    THEN FRoundUp(s, WAdd(M, <<0, 1>>), e)
    ELSE <<s, M[1], M[2], e>>

\* X in [2^55, 2^56) carries the three guard bits.
FRound(s, X, e) ==
    FRoundBits(s, <<X[1] \div 8, X[2] \div 8 + (X[1] % 8) * 2^25>>,
               X[2] % 8, e)

\* <<h, l>> # 0 shifted left until it has 56 bits, the exponent e lowered
\* alike: p is <<h, l, e>>.
WNormal[p \in Seq(Int)] ==
    IF p[1] >= 2^27 THEN p
    ELSE IF p[1] = 0 THEN WNormal[<<p[2], 0, p[3] - 28>>]
    ELSE IF p[1] < 2^20
    THEN WNormal[<<p[1] * 128 + p[2] \div 2^21,
                   (p[2] % 2^21) * 128, p[3] - 7>>]
    ELSE WNormal[<<p[1] * 2 + p[2] \div 2^27,
                   (p[2] % 2^27) * 2, p[3] - 1>>]

FRound3(s, p) == FRound(s, <<p[1], p[2]>>, p[3])

FNormalize(s, X, e) == FRound3(s, WNormal[<<X[1], X[2], e>>])

FAddSum(s, sum, e) ==
    IF sum[1] >= 2^28 THEN FRound(s, WShr[<<sum[1], sum[2], 1>>], e + 1)
    ELSE FRound(s, sum, e)

FAddAligned(sa, sb, A, B, e) ==
    IF sa = sb THEN FAddSum(sa, WAdd(A, B), e)
    ELSE IF A = B THEN FZero
    ELSE FNormalize(sa, WSub(A, B), e)

WShrGuarded(G, d) == WShr[<<G[1], G[2], IF d > 60 THEN 60 ELSE d>>]

\* a + b for |a| >= |b| > 0.
FAddOrdered(a, b) ==
    FAddAligned(a[1], b[1], WGuard(a[2], a[3]),
                WShrGuarded(WGuard(b[2], b[3]), a[4] - b[4]), a[4])

FMagLess(a, b) ==
    IF b[1] = 0 THEN FALSE
    ELSE IF a[1] = 0 THEN TRUE
    ELSE a[4] < b[4] \/ (a[4] = b[4] /\ WLess(<<a[2], a[3]>>, <<b[2], b[3]>>))

\* a + b.
FAdd(a, b) ==
    IF a[1] = 0 THEN b
    ELSE IF b[1] = 0 THEN a
    ELSE IF FMagLess(a, b) THEN FAddOrdered(b, a)
    ELSE FAddOrdered(a, b)

FNeg(a) == <<-a[1], a[2], a[3], a[4]>>

FAbs(a) == <<a[1] * a[1], a[2], a[3], a[4]>>

\* a < b.
FLess(a, b) ==
    IF a[1] # b[1] THEN a[1] < b[1]
    ELSE IF a[1] = 1 THEN FMagLess(a, b)
    ELSE IF a[1] = -1 THEN FMagLess(b, a)
    ELSE FALSE

FLeq(a, b) == ~FLess(b, a)

\* One step of the long division: p is <<R.h, R.l, D.h, D.l, q.h, q.l, n>>
\* with R < 2 * D; the next quotient bit is appended to q, R becomes twice
\* the remainder and n counts down.
QPack(R2, p, q) == <<R2[1], R2[2], p[3], p[4], q[1], q[2], p[7] - 1>>

QStep(p) ==
    IF WLess(<<p[1], p[2]>>, <<p[3], p[4]>>)
    THEN QPack(WCarry(2 * p[1], 2 * p[2]), p, WCarry(2 * p[5], 2 * p[6]))
    ELSE QPack(WCarry(2 * (p[1] - p[3]) - (IF p[2] < p[4] THEN 2 ELSE 0),
                      2 * (p[2] - p[4]) + (IF p[2] < p[4] THEN 2 * Limb ELSE 0)),
               p, WCarry(2 * p[5], 2 * p[6] + 1))

\* The p[7] leading bits of the quotient R / D, the last one sticky.
WQuotient[p \in Seq(Int)] ==
    IF p[7] = 0 THEN WSticky(p[5], p[6], p[1] + p[2])
    ELSE WQuotient[QStep(p)]

FDivSmall(a, b) == WLess(<<a[2], a[3]>>, <<b[2], b[3]>>)

\* a / b, b # 0; exact when b is a power of two.
FDiv(a, b) ==
    IF a[1] = 0 THEN FZero
    ELSE IF b[2] = 2^24 /\ b[3] = 0
    THEN <<a[1] * b[1], a[2], a[3], a[4] - b[4] - 52>>
    ELSE IF FDivSmall(a, b)
    THEN FRound(a[1] * b[1],
                WQuotient[<<2 * a[2] + (2 * a[3]) \div Limb, (2 * a[3]) % Limb,
                            b[2], b[3], 0, 0, 56>>],
                a[4] - b[4] - 53)
    ELSE FRound(a[1] * b[1],
                WQuotient[<<a[2], a[3], b[2], b[3], 0, 0, 56>>],
                a[4] - b[4] - 52)

\* The binary64 value of an integer of magnitude below 2^28.
FInt(i) ==
    IF i = 0 THEN FZero
    ELSE FNormalize(IF i < 0 THEN -1 ELSE 1, <<0, IF i < 0 THEN -i ELSE i>>, 3)

FSgn(a) == a[1]

\* x ** t for the exponents a two-period cash flow uses: pow(x, 0) is 1.0
\* and pow(x, 1) is x, both exact.
FPow(a, p) == IF p = 0 THEN FInt(1) ELSE a

\* The sign of the binary64 product a * b (no underflow: the factors here
\* are zero or far above 2^-500 in magnitude).
FProdSign(a, b) == FSgn(a) * FSgn(b)

\* npv in binary64, lines 4-8.
RECURSIVE FNpvLoop(_, _, _, _)
FNpvLoop(rate, cf, i, total_value) ==
    IF i >= Len(cf) THEN total_value
    ELSE FNpvLoop(rate, cf, i + 1,
             FAdd(total_value,
                  FDiv(FInt(cf[i + 1]), FPow(FAdd(FInt(1), rate), i))))

Fnpv(rate, cf) == FNpvLoop(rate, cf, 0, FZero)

\* The default arguments, lines 15 and 42, as the binary64 values of their
\* literals (the correctly rounded quotient of two exact integers).
DefaultRateMin == FNeg(FDiv(FInt(99), FInt(100)))
DefaultRateMax == FInt(10)
DefaultStep == FDiv(FInt(1), FInt(1000))
DefaultTol == FDiv(FInt(1), FInt(1000000))
DefaultMaxIter == 1000

FIsBracket(a, b) == FProdSign(a, b) < 0
FNoSignChange(a, b) == FProdSign(a, b) > 0
FMidpoint(lo, hi) == FDiv(FAdd(lo, hi), FInt(2))

\* The tolerance test of line 26 with a tolerance of 1.0.
FWithinTolLoose(v) == FLess(FAbs(v), FInt(1))

\* Line 26.
FWithinTol(v) == FLess(FAbs(v), DefaultTol)

\* The IRR script starts on the cash flows -100, 121 with binary64
\* arithmetic; the GBM script is not running.
InitF ==
    /\ gpc = "off" /\ Z = <<>> /\ S = <<>> /\ t = 0
    /\ pc = "grid" /\ cash_flows = <<-100, 121>>
    /\ r = DefaultRateMin /\ count = 0
    /\ rates = <<>> /\ npv_values = <<>>
    /\ intervals = <<>> /\ irrs = <<>> /\ k = 0 /\ caller = "find_all_irrs"
    /\ low = FZero /\ high = FZero /\ npv_low = FZero /\ npv_high = FZero
    /\ mid = FZero /\ npv_mid = FZero /\ x = 0 /\ irr = FZero /\ exit = "none"

\* find_all_irrs, lines 43-54, one grid rate at a time: the rate is appended
\* to rates (line 46), its NPV to npv_values (line 49) and the pair it forms
\* with the rate before it is tested (lines 53-54); then r += step (line 47).
\* The three loops of the code run over the same index and none reads what a
\* later one writes, so they are taken together.  Of the two lists, which
\* hold 10991 elements each, the state keeps the last element and the length
\* (count): the loops read nothing else.
FScan ==
    /\ pc = "grid"
    /\ IF FLeq(r, DefaultRateMax)
       THEN /\ rates' = <<r>>
            /\ npv_values' = <<Fnpv(r, cash_flows)>>
            /\ intervals' =
                 IF count >= 1 /\ FIsBracket(npv_values[1], npv_values'[1])
                 THEN Append(intervals, <<rates[1], r>>)
                 ELSE intervals
            /\ count' = count + 1
            /\ r' = FAdd(r, DefaultStep)
            /\ UNCHANGED <<pc, k>>
       ELSE /\ pc' = "brackets" /\ k' = 0
            /\ UNCHANGED <<rates, npv_values, intervals, count, r>>
    /\ UNCHANGED <<cash_flows, irrs, caller, frameVars, gbmVars>>

\* find_all_irrs, lines 57-58 and irr_bisection_interval, lines 16-21.
FCall ==
    /\ pc = "brackets" /\ k < Len(intervals)
    /\ low' = intervals[k + 1][1] /\ high' = intervals[k + 1][2]
    /\ npv_low' = Fnpv(low', cash_flows)
    /\ npv_high' = Fnpv(high', cash_flows)
    /\ mid' = FZero /\ npv_mid' = FZero /\ x' = 0 /\ irr' = FZero
    /\ IF FNoSignChange(npv_low', npv_high')
       THEN exit' = "no_root" /\ pc' = "returned"
       ELSE exit' = "none" /\ pc' = "loop"
    /\ UNCHANGED <<cash_flows, scanVars, caller, gbmVars>>

\* irr_bisection_interval, lines 22-36: one pass of the loop, or the return
\* after it.
FLoop ==
    /\ pc = "loop"
    /\ IF x < DefaultMaxIter
       THEN /\ mid' = FMidpoint(low, high)
            /\ npv_mid' = Fnpv(mid', cash_flows)
            /\ IF FWithinTol(npv_mid')
               THEN /\ irr' = mid' /\ exit' = "tol" /\ pc' = "returned"
                    /\ UNCHANGED <<low, high, npv_low, npv_high, x>>
               ELSE /\ IF FProdSign(npv_low, npv_mid') < 0
                       THEN /\ high' = mid' /\ npv_high' = npv_mid'
                            /\ UNCHANGED <<low, npv_low>>
                       ELSE /\ low' = mid' /\ npv_low' = npv_mid'
                            /\ UNCHANGED <<high, npv_high>>
                    /\ x' = x + 1
                    /\ UNCHANGED <<irr, exit, pc>>
       ELSE /\ irr' = mid /\ exit' = "max_iter" /\ pc' = "returned"
            /\ UNCHANGED <<low, high, npv_low, npv_high, mid, npv_mid, x>>
    /\ UNCHANGED <<cash_flows, scanVars, caller, gbmVars>>

\* find_all_irrs, lines 59-60.
FCollect ==
    /\ pc = "returned"
    /\ irrs' = IF exit # "no_root" THEN Append(irrs, irr) ELSE irrs
    /\ k' = k + 1
    /\ pc' = "brackets"
    /\ UNCHANGED <<cash_flows, r, count, rates, npv_values, intervals, caller,
                   frameVars, gbmVars>>

\* find_all_irrs, line 62.
FReturn ==
    /\ pc = "brackets" /\ k >= Len(intervals)
    /\ pc' = "done"
    /\ UNCHANGED <<cash_flows, scanVars, caller, frameVars, gbmVars>>

NextF == FScan \/ FCall \/ FLoop \/ FCollect \/ FReturn

SpecF == InitF /\ [][NextF]_vars

\* ------------------------------------------------------------- claims --
StrictlyOpposite(a, b) ==
    \/ Sgn(a) = 1 /\ Sgn(b) = -1
    \/ Sgn(a) = -1 /\ Sgn(b) = 1

AllPositive(cf) == \A i \in 1 .. Len(cf) : cf[i] > 0
AllNegative(cf) == \A i \in 1 .. Len(cf) : cf[i] < 0

\* One negative value first, then only positive values.
OneSignChange(cf) ==
    /\ Len(cf) >= 2
    /\ cf[1] < 0
    /\ \A i \in 2 .. Len(cf) : cf[i] > 0

\* C1: in irr_bisection_interval, once the entry check has passed, at the
\* start of every loop iteration and after every endpoint replacement the
\* cached values are the NPVs of the current endpoints and their product is
\* not positive (the endpoints bracket a sign change).
C1_BracketInvariant ==
    pc = "loop" =>
        /\ npv_low = npv(low, cash_flows)
        /\ npv_high = npv(high, cash_flows)
        /\ ProdSign(npv_low, npv_high) <= 0

\* C2: for the cash flows [-100, 121], find_all_irrs with its default range
\* (rate_min = -0.99, rate_max = 10.0, step = 0.001) returns exactly one
\* root; the root is within the tolerance 1e-6 of 0.21 and the NPV at it is
\* within the tolerance of zero.
C2_OneRootAt21Percent ==
    pc = "done" =>
        /\ Len(irrs) = 1
        /\ FLess(FAbs(FAdd(irrs[1], FNeg(FDiv(FInt(21), FInt(100))))),
                 DefaultTol)
        /\ FLess(FAbs(Fnpv(irrs[1], cash_flows)), DefaultTol)

C2_Witness ==
    /\ pc = "done" /\ cash_flows = <<-100, 121>>
    /\ count = 10991 /\ Len(intervals) = 1
    /\ Len(irrs) = 1 /\ exit = "tol" /\ x >= 1

C4_EveryRootWithinTol ==
    \A i \in 1 .. Len(irrs) : RLess(RAbs(npv(irrs[i], cash_flows)), tol)

\* C4 (amended): a value returned by the tolerance test of the loop (line 26)
\* has |npv| < tol; a midpoint returned after max_iter iterations need not.
C4_TolExitWithinTol ==
    (pc = "returned" /\ exit = "tol") =>
        /\ irr # None
        /\ RLess(RAbs(npv(irr, cash_flows)), tol)

C4_Witness ==
    /\ pc = "returned" /\ exit = "tol" /\ caller = "find_all_irrs"
    /\ x >= 2

\* C5: irr_bisection_interval returns None, without any bisection iteration,
\* exactly when NPV(low) * NPV(high) > 0 at entry, and None never appears in
\* the root list of find_all_irrs.
C5_NoRootIsNone ==
    /\ (pc = "returned" /\ exit = "no_root") =>
          /\ irr = None /\ x = 0 /\ mid = None /\ npv_mid = None
          /\ ProdSign(npv(low, cash_flows), npv(high, cash_flows)) > 0
    /\ (pc = "loop" /\ x = 0) =>
          ProdSign(npv(low, cash_flows), npv(high, cash_flows)) <= 0
    /\ (pc = "returned" /\ exit # "no_root") => irr # None
    /\ \A i \in 1 .. Len(irrs) : irrs[i] # None

C5_Witness ==
    /\ pc = "returned" /\ exit = "no_root" /\ caller = "direct"
    /\ Len(cash_flows) >= 2

\* C6: the roots find_all_irrs returns are in strictly ascending order.
C6_Ascending ==
    \A i \in 1 .. Len(irrs) : \A j \in 1 .. Len(irrs) :
        i < j => RLess(irrs[i], irrs[j])

C6_Witness == pc = "done" /\ Len(irrs) >= 2

C9_BudgetAndLastMidpoint ==
    /\ x <= max_iter
    /\ (pc = "returned" /\ exit = "tol") => x + 1 <= max_iter
    /\ (pc = "returned" /\ exit = "max_iter") =>
          /\ x = max_iter
          /\ irr = mid /\ irr # None
          /\ irr = Midpoint(low, high) \/ irr = low \/ irr = high
          /\ ~WithinTol(npv_mid)

C9_Witness ==
    /\ pc = "returned" /\ exit = "max_iter" /\ caller = "find_all_irrs"

C8_RowsFilled ==
    gpc \in {"fill", "filled"} =>
        /\ \A i \in 1 .. N : S[0][i] = Rat(S0)
        /\ t \in 1 .. steps + 1
        /\ gpc = "filled" => t = steps + 1
        /\ \A row \in 1 .. steps : \A i \in 1 .. N :
              IF row < t
              THEN S[row][i] = RMul(S[row - 1][i], StepFactor(Z[row - 1][i]))
              ELSE S[row][i] = Rat(0)

C8_NoRewrite ==
    gpc \in {"fill", "filled"} =>
        /\ t' >= t
        /\ \A row \in 0 .. t - 1 : S'[row] = S[row]

C8_ForwardFill == []C8_RowsFilled /\ [][C8_NoRewrite]_vars

C8_Witness ==
    /\ gpc = "filled"
    /\ \E i \in 1 .. N : \E j \in 1 .. N : Z[0][i] # Z[0][j]
    /\ \E row \in 1 .. steps - 1 : \E i \in 1 .. N : Z[row][i] # Z[row - 1][i]

=============================================================================
